---- MODULE Spec2Model ----
(***************************************************************************)
(* Long Distance Companion API (src/main.py): a request/response layer     *)
(* over a document store.  Every handler is a short sequence of store      *)
(* operations; each store operation is one atomic step, and the steps of   *)
(* handlers serving different requests may interleave.                     *)
(*                                                                         *)
(* Representation.  A Python value that may be None is a sequence of       *)
(* length at most one: None is <<>>, the value v is <<v>>.  A document is  *)
(* a record whose "_id" field is an ObjectId (a natural number here); a    *)
(* datetime is a clock reading (a natural number); a collection is the     *)
(* sequence of its documents in natural (insertion) order.  Request ids    *)
(* are well-formed ObjectId strings and the store handle is live.          *)
(***************************************************************************)
EXTENDS Integers, Sequences, FiniteSets, TLC

VARIABLES
    db,       \* collection name -> sequence of documents
    nextId,   \* the next ObjectId the store hands out
    now,      \* the wall clock, in ticks of the stored resolution
    pc,       \* request worker -> where it stands in its handler
    req,      \* request worker -> the request it is serving
    loc,      \* request worker -> the handler's local _id
    resp,     \* the response the last step sent, if it sent one
    lastSet,  \* history: room code -> target of the last applied upsert
    deleted   \* history: ObjectIds whose deletion was acknowledged

vars == <<db, nextId, now, pc, req, loc, resp, lastSet, deleted>>

\* ---------------------------------------------------------------- bounds
NProcs == 2
MaxId == 2
MaxClock == 1

Procs == 1..NProcs
Codes == {"r1", "r2"}
Titles == {<<>>, <<"us">>, <<"we">>}
Targets == {"2030", "2031"}
Texts == {"milk"}
Authors == {<<>>}
Notes == {<<>>}
Dones == {<<>>, <<TRUE>>, <<FALSE>>}
Limits == -1..2
Collections == {"room", "countdown", "motd", "ping", "todo"}

None == <<>>
Some(v) == <<v>>

Min(S) == CHOOSE x \in S : \A y \in S : x <= y
Abs(n) == IF n < 0 THEN 0 - n ELSE n
Range(s) == {s[i] : i \in 1..Len(s)}

NoReq == [op |-> "none"]
NoResp == [req |-> NoReq, status |-> 0, body |-> None]

\* --------------------------------------------------------- serialization
\* str(ObjectId) and ObjectId(str)
str(oid) == ToString(oid)
ObjectId(s) == CHOOSE n \in 0..(MaxId + NProcs + 1) : str(n) = s

\* the well-formed ids a client may send
TodoIds == {str(n) : n \in 1..MaxId}

\* datetime.astimezone(utc).isoformat()
isoformat(t) == "T" \o ToString(t)

DatetimeFields == {"at", "created_at", "updated_at"}

\* serialize_doc on a present document
SerializeFields(d) ==
    [k \in ((DOMAIN d) \ {"_id"}) \cup {"id"} |->
        IF k = "id" THEN str(d["_id"])
        ELSE IF k \in DatetimeFields THEN isoformat(d[k])
        ELSE d[k]]

\* serialize_doc: a falsy (absent) document is returned as it is
serialize_doc(doc) == IF doc = None THEN doc ELSE Some(SerializeFields(doc[1]))

\* [serialize_doc(d) for d in docs]
SerializeAll(s) == [i \in DOMAIN s |-> SerializeFields(s[i])]

\* ------------------------------------------------------------- the store
\* collection.find_one(filter): the first match in natural order, or None
First(coll, idx) == IF idx = {} THEN None ELSE Some(coll[Min(idx)])

FindById(name, oid) ==
    First(db[name], {i \in 1..Len(db[name]) : db[name][i]["_id"] = oid})

\* create_document(collection_name, data): insert under a fresh ObjectId and
\* return the id as a string
InsertedId == str(nextId)
create_document(name, data) ==
    /\ db' = [db EXCEPT ![name] = Append(@, data @@ [k \in {"_id"} |-> nextId])]
    /\ nextId' = nextId + 1

\* ids are spent by inserts; a handler that will insert is admitted only
\* while an id is left for it
IdLeft == nextId + Cardinality({q \in Procs : pc[q] = "cr_insert"}) <= MaxId

\* collection.find({"room_code": code}): the room's documents
FindByRoom(name, code) == {d \in Range(db[name]) : d.room_code = code}

\* cursor.sort(key, -1): the documents by descending key.  The store leaves
\* the order of documents with equal keys open, so every such order is a
\* possible result
SortDesc(docs, key) ==
    {s \in [1..Cardinality(docs) -> docs] :
        /\ \A i, j \in DOMAIN s : i # j => s[i] # s[j]
        /\ \A i, j \in DOMAIN s : i < j => s[i][key] >= s[j][key]}

\* cursor.limit(n): 0 means no limit, a negative n is a limit of -n
limit(s, n) ==
    IF n = 0 THEN s
    ELSE SubSeq(s, 1, IF Abs(n) < Len(s) THEN Abs(n) ELSE Len(s))

\* ------------------------------------------------------------- responses
\* a handler that answers in its first step
Answer(r, status, body) ==
    resp' = [req |-> r, status |-> status, body |-> body]

\* a handler that answers in a later step, and is done
Return(p, status, body) ==
    /\ resp' = [req |-> req[p], status |-> status, body |-> body]
    /\ pc' = [pc EXCEPT ![p] = "idle"]
    /\ req' = [req EXCEPT ![p] = NoReq]
    /\ loc' = [loc EXCEPT ![p] = ""]

\* a handler's first step that goes on to a next one
Proceed(p, r, to) ==
    /\ req' = [req EXCEPT ![p] = r]
    /\ pc' = [pc EXCEPT ![p] = to]
    /\ resp' = NoResp

\* ----------------------------------------------------------------- rooms
RoomByCode(code) ==
    First(db["room"], {i \in 1..Len(db["room"]) : db["room"][i].code = code})

\* a lookup that finds nothing: create_room always inserts
RoomNeverFound(code) == None

\* create_room, line 78: db["room"].find_one({"code": req.code})
ExistingRoom(code) == RoomByCode(code)

\* create_room, lines 78-80: the lookup by code and the early return
CreateRoomFind(p) ==
    /\ pc[p] = "idle"
    /\ \E code \in Codes, title \in Titles :
        LET r == [op |-> "createRoom", code |-> code, title |-> title]
            existing == ExistingRoom(code)
        IN IF existing # None
           THEN /\ Answer(r, 200, serialize_doc(existing))
                /\ UNCHANGED <<pc, req>>
           ELSE IdLeft /\ Proceed(p, r, "cr_insert")
    /\ UNCHANGED <<db, nextId, now, loc, lastSet, deleted>>

\* create_room, lines 81-82: Room(code, title) inserted
CreateRoomInsert(p) ==
    /\ pc[p] = "cr_insert"
    /\ create_document("room", [code |-> req[p].code, title |-> req[p].title])
    /\ loc' = [loc EXCEPT ![p] = InsertedId]
    /\ pc' = [pc EXCEPT ![p] = "cr_read"]
    /\ resp' = NoResp
    /\ UNCHANGED <<now, req, lastSet, deleted>>

\* create_room, lines 83-84: the created document re-read by _id and returned
CreateRoomRead(p) ==
    /\ pc[p] = "cr_read"
    /\ Return(p, 200, serialize_doc(FindById("room", ObjectId(loc[p]))))
    /\ UNCHANGED <<db, nextId, now, lastSet, deleted>>

\* get_room
GetRoom(p) ==
    /\ pc[p] = "idle"
    /\ \E code \in Codes :
        LET r == [op |-> "getRoom", code |-> code]
            room == RoomByCode(code)
        IN IF room = None
           THEN Answer(r, 404, Some([detail |-> "Room not found"]))
           ELSE Answer(r, 200, serialize_doc(room))
    /\ UNCHANGED <<db, nextId, now, pc, req, loc, lastSet, deleted>>

\* ------------------------------------------------------------- countdown
\* find_one that forgets its filter: the first countdown of any room
CountdownOfAnyRoom(code) ==
    First(db["countdown"], 1..Len(db["countdown"]))

\* db["countdown"].find_one({"room_code": code})
CountdownByRoom(code) ==
    First(db["countdown"],
          {i \in 1..Len(db["countdown"]) : db["countdown"][i].room_code = code})

\* update_one(..., upsert=True) that never matches: every write inserts
UpsertAlwaysInserts(code, data) ==
    /\ db' = [db EXCEPT !["countdown"] = Append(@, data @@ [k \in {"_id"} |-> nextId])]
    /\ nextId' = nextId + 1

\* db["countdown"].update_one({"room_code": code}, {"$set": data}, upsert=True),
\* one atomic store step: $set on the first match, or an insert of the filter's
\* and the $set's fields under a fresh ObjectId
UpsertCountdown(code, data) ==
    LET coll == db["countdown"]
        idx == {i \in 1..Len(coll) : coll[i].room_code = code}
    IN IF idx # {}
       THEN /\ db' = [db EXCEPT !["countdown"][Min(idx)] =
                        data @@ [k \in {"_id"} |-> @["_id"]]]
            /\ nextId' = nextId
       ELSE /\ db' = [db EXCEPT !["countdown"] =
                        Append(@, data @@ [k \in {"_id"} |-> nextId])]
            /\ nextId' = nextId + 1

\* set_countdown, lines 101-108: stamp the clock and upsert
SetCountdownUpsert(p) ==
    /\ pc[p] = "idle"
    /\ \E code \in Codes, target \in Targets :
        /\ (\A d \in Range(db["countdown"]) : d.room_code # code) => IdLeft
        /\ UpsertCountdown(code, [room_code |-> code, target_iso |-> Some(target),
                                  updated_at |-> now, created_at |-> now])
        /\ lastSet' = [lastSet EXCEPT ![code] = Some(target)]
        /\ Proceed(p, [op |-> "setCountdown", code |-> code, target_iso |-> target],
                   "sc_read")
    /\ UNCHANGED <<now, loc, deleted>>

\* set_countdown, lines 109-110: re-read by room_code and return
SetCountdownRead(p) ==
    /\ pc[p] = "sc_read"
    /\ Return(p, 200, serialize_doc(CountdownByRoom(req[p].code)))
    /\ UNCHANGED <<db, nextId, now, lastSet, deleted>>

\* get_countdown
GetCountdown(p) ==
    /\ pc[p] = "idle"
    /\ \E code \in Codes :
        LET r == [op |-> "getCountdown", code |-> code]
            doc == CountdownByRoom(code)
        IN IF doc = None
           THEN Answer(r, 200, Some([room_code |-> code, target_iso |-> None]))
           ELSE Answer(r, 200, serialize_doc(doc))
    /\ UNCHANGED <<db, nextId, now, pc, req, loc, lastSet, deleted>>

\* datetime.now(timezone.utc) advances between requests by whole ticks; two
\* requests served within one tick read the same value
Tick ==
    /\ now < MaxClock
    /\ now' = now + 1
    /\ resp' = NoResp
    /\ UNCHANGED <<db, nextId, pc, req, loc, lastSet, deleted>>

\* ------------------------------------------------------------------ motd
\* create_motd, lines 127-128: stamp `at` and insert
CreateMotdInsert(p) ==
    /\ pc[p] = "idle"
    /\ IdLeft
    /\ \E code \in Codes, text \in Texts, author \in Authors :
        /\ create_document("motd", [room_code |-> code, text |-> text,
                                    author |-> author, at |-> now])
        /\ Proceed(p, [op |-> "createMotd", code |-> code], "cm_read")
    /\ loc' = [loc EXCEPT ![p] = InsertedId]
    /\ UNCHANGED <<now, lastSet, deleted>>

\* create_motd, lines 129-130
CreateMotdRead(p) ==
    /\ pc[p] = "cm_read"
    /\ Return(p, 200, serialize_doc(FindById("motd", ObjectId(loc[p]))))
    /\ UNCHANGED <<db, nextId, now, lastSet, deleted>>

\* list_motd
ListMotd(p) ==
    /\ pc[p] = "idle"
    /\ \E code \in Codes, lim \in Limits :
        \E docs \in SortDesc(FindByRoom("motd", code), "at") :
            Answer([op |-> "listMotd", code |-> code, limit |-> lim],
                   200, SerializeAll(limit(docs, lim)))
    /\ UNCHANGED <<db, nextId, now, pc, req, loc, lastSet, deleted>>

\* ----------------------------------------------------------------- pings
\* create_ping, lines 145-146
CreatePingInsert(p) ==
    /\ pc[p] = "idle"
    /\ IdLeft
    /\ \E code \in Codes, note \in Notes, author \in Authors :
        /\ create_document("ping", [room_code |-> code, note |-> note,
                                    author |-> author, at |-> now])
        /\ Proceed(p, [op |-> "createPing", code |-> code], "cp_read")
    /\ loc' = [loc EXCEPT ![p] = InsertedId]
    /\ UNCHANGED <<now, lastSet, deleted>>

\* create_ping, lines 147-148
CreatePingRead(p) ==
    /\ pc[p] = "cp_read"
    /\ Return(p, 200, serialize_doc(FindById("ping", ObjectId(loc[p]))))
    /\ UNCHANGED <<db, nextId, now, lastSet, deleted>>

\* list_pings
ListPings(p) ==
    /\ pc[p] = "idle"
    /\ \E code \in Codes, lim \in Limits :
        \E docs \in SortDesc(FindByRoom("ping", code), "at") :
            Answer([op |-> "listPings", code |-> code, limit |-> lim],
                   200, SerializeAll(limit(docs, lim)))
    /\ UNCHANGED <<db, nextId, now, pc, req, loc, lastSet, deleted>>

\* ----------------------------------------------------------------- todos
\* a query that forgets the room: {"_id": ObjectId(todo_id)}
TodoQueryAnyRoom(d, oid, code) == d["_id"] = oid

\* q = {"_id": ObjectId(todo_id), "room_code": code}
TodoQuery(d, oid, code) == d["_id"] = oid /\ d.room_code = code

Matching(oid, code) ==
    {i \in 1..Len(db["todo"]) : TodoQuery(db["todo"][i], oid, code)}

\* list_todos
ListTodos(p) ==
    /\ pc[p] = "idle"
    /\ \E code \in Codes :
        \E docs \in SortDesc(FindByRoom("todo", code), "created_at") :
            Answer([op |-> "listTodos", code |-> code], 200, SerializeAll(docs))
    /\ UNCHANGED <<db, nextId, now, pc, req, loc, lastSet, deleted>>

\* add_todo, lines 170-171
AddTodoInsert(p) ==
    /\ pc[p] = "idle"
    /\ IdLeft
    /\ \E code \in Codes, text \in Texts :
        /\ create_document("todo", [room_code |-> code, text |-> text,
                                    done |-> FALSE, created_at |-> now])
        /\ Proceed(p, [op |-> "addTodo", code |-> code], "at_read")
    /\ loc' = [loc EXCEPT ![p] = InsertedId]
    /\ UNCHANGED <<now, lastSet, deleted>>

\* add_todo, lines 172-173
AddTodoRead(p) ==
    /\ pc[p] = "at_read"
    /\ Return(p, 200, serialize_doc(FindById("todo", ObjectId(loc[p]))))
    /\ UNCHANGED <<db, nextId, now, lastSet, deleted>>

\* {"$set": {"done": ..., "updated_at": ..., "created_at": ...}}: an update
\* that stamps created_at as well
SetDoneAndCreated(d, done) ==
    IF done = None THEN d
    ELSE [k \in (DOMAIN d) \cup {"updated_at"} |->
            IF k = "done" THEN done[1]
            ELSE IF k \in {"updated_at", "created_at"} THEN now ELSE d[k]]

\* lines 178-181: {"$set": {}} when done is None, else done and updated_at
SetDone(d, done) ==
    IF done = None THEN d
    ELSE [k \in (DOMAIN d) \cup {"updated_at"} |->
            IF k = "done" THEN done[1]
            ELSE IF k = "updated_at" THEN now ELSE d[k]]

\* update_todo, lines 177-184: update_one and the 404 on matched_count == 0
UpdateTodoUpdate(p) ==
    /\ pc[p] = "idle"
    /\ \E code \in Codes, id \in TodoIds, done \in Dones :
        LET r == [op |-> "updateTodo", code |-> code, id |-> id, done |-> done]
            m == Matching(ObjectId(id), code)
        IN IF m = {}
           THEN /\ Answer(r, 404, Some([detail |-> "Todo not found"]))
                /\ UNCHANGED <<db, pc, req>>
           ELSE /\ db' = [db EXCEPT !["todo"][Min(m)] = SetDone(@, done)]
                /\ Proceed(p, r, "ut_read")
    /\ UNCHANGED <<nextId, now, loc, lastSet, deleted>>

\* update_todo, lines 185-186: find_one(q) and return
UpdateTodoRead(p) ==
    /\ pc[p] = "ut_read"
    /\ Return(p, 200, serialize_doc(
           First(db["todo"], Matching(ObjectId(req[p].id), req[p].code))))
    /\ UNCHANGED <<db, nextId, now, lastSet, deleted>>

\* delete_one that acknowledges a match without removing it
KeepAll(coll, m) == coll

\* delete_one: the collection without its first match
Remove(coll, m) ==
    [i \in 1..(Len(coll) - 1) |-> IF i < Min(m) THEN coll[i] ELSE coll[i + 1]]

\* delete_todo
DeleteTodo(p) ==
    /\ pc[p] = "idle"
    /\ \E code \in Codes, id \in TodoIds :
        LET r == [op |-> "deleteTodo", code |-> code, id |-> id]
            m == Matching(ObjectId(id), code)
        IN IF m = {}
           THEN /\ Answer(r, 404, Some([detail |-> "Todo not found"]))
                /\ UNCHANGED <<db, deleted>>
           ELSE /\ db' = [db EXCEPT !["todo"] = Remove(@, m)]
                /\ Answer(r, 200, Some([ok |-> TRUE]))
                /\ deleted' = deleted \cup {ObjectId(id)}
    /\ UNCHANGED <<nextId, now, pc, req, loc, lastSet>>

\* --------------------------------------------------------- specifications
Init ==
    /\ db = [c \in Collections |-> <<>>]
    /\ nextId = 1
    /\ now = 0
    /\ pc = [p \in Procs |-> "idle"]
    /\ req = [p \in Procs |-> NoReq]
    /\ loc = [p \in Procs |-> ""]
    /\ resp = NoResp
    /\ lastSet = [c \in Codes |-> None]
    /\ deleted = {}

\* calls made one after the other: one worker serves them all, each to its
\* end before the next
Serial == {Min(Procs)}

\* rooms, requests served concurrently
NextRoom ==
    \E p \in Procs :
        \/ CreateRoomFind(p)
        \/ CreateRoomInsert(p)
        \/ CreateRoomRead(p)
        \/ GetRoom(p)
SpecRoom == Init /\ [][NextRoom]_vars

\* rooms, requests served one after the other
NextRoomSeq ==
    \E p \in Serial :
        \/ CreateRoomFind(p)
        \/ CreateRoomInsert(p)
        \/ CreateRoomRead(p)
        \/ GetRoom(p)
SpecRoomSeq == Init /\ [][NextRoomSeq]_vars

\* countdowns, requests served concurrently
NextCountdown ==
    \/ Tick
    \/ \E p \in Procs :
        \/ SetCountdownUpsert(p)
        \/ SetCountdownRead(p)
        \/ GetCountdown(p)
SpecCountdown == Init /\ [][NextCountdown]_vars

\* motd and pings, requests served one after the other
NextFeed ==
    \/ Tick
    \/ \E p \in Serial :
        \/ CreateMotdInsert(p)
        \/ CreateMotdRead(p)
        \/ ListMotd(p)
        \/ CreatePingInsert(p)
        \/ CreatePingRead(p)
        \/ ListPings(p)
SpecFeed == Init /\ [][NextFeed]_vars

\* todos, requests served concurrently
NextTodo ==
    \/ Tick
    \/ \E p \in Procs :
        \/ ListTodos(p)
        \/ AddTodoInsert(p)
        \/ AddTodoRead(p)
        \/ UpdateTodoUpdate(p)
        \/ UpdateTodoRead(p)
        \/ DeleteTodo(p)
SpecTodo == Init /\ [][NextTodo]_vars

\* todos, requests served one after the other
NextTodoSeq ==
    \/ Tick
    \/ \E p \in Serial :
        \/ ListTodos(p)
        \/ AddTodoInsert(p)
        \/ AddTodoRead(p)
        \/ UpdateTodoUpdate(p)
        \/ UpdateTodoRead(p)
        \/ DeleteTodo(p)
SpecTodoSeq == Init /\ [][NextTodoSeq]_vars

\* ------------------------------------------------------------------ rooms
RoomsWithCode(code) == {i \in 1..Len(db["room"]) : db["room"][i].code = code}

\* C1: createRoom is idempotent.  With the calls made one after the other,
\* every createRoom(code) returns the Room record of the one document the
\* collection holds with that code; a call that finds a document with its code
\* returns that document's id and leaves the collection as it was (whatever
\* title it asked for), so both of two successive calls return the same id and
\* the document stays the one the first call inserted.
C1_ReturnsTheOneRoom ==
    resp.req.op = "createRoom" =>
        /\ resp.status = 200
        /\ resp.body # None
        /\ Cardinality(RoomsWithCode(resp.req.code)) = 1
        /\ \A i \in RoomsWithCode(resp.req.code) :
              /\ resp.body[1].id = str(db["room"][i]["_id"])
              /\ resp.body[1].code = resp.req.code
              /\ resp.body[1].title = db["room"][i].title
C1_SecondCall ==
    /\ \A i \in 1..Len(db["room"]) :
          /\ Len(db'["room"]) >= i
          /\ db'["room"][i] = db["room"][i]
    /\ (resp'.req.op = "createRoom" /\ RoomsWithCode(resp'.req.code) # {}) =>
          /\ db' = db
          /\ \A i \in RoomsWithCode(resp'.req.code) :
                resp'.body[1].id = str(db["room"][i]["_id"])
\* C1: every createRoom answer is the one room of its code, and a call that
\* finds its code stored returns that id and changes nothing.
C1_CreateRoomIdempotent == []C1_ReturnsTheOneRoom /\ [][C1_SecondCall]_vars
\* a second createRoom for a code, asking for another title, was answered
\* with the room as the first call stored it
C1_Witness ==
    /\ resp.req.op = "createRoom"
    /\ resp.body # None
    /\ resp.body[1].title # resp.req.title
    /\ Len(db["room"]) = 2

\* C2: the room collection never holds two documents with the same code, also
\* when createRoom requests for one code run concurrently.
C2_RoomCodesUnique ==
    \A i, j \in 1..Len(db["room"]) :
        db["room"][i].code = db["room"][j].code => i = j

\* -------------------------------------------------------------- countdown
CountdownsOf(code) ==
    {i \in 1..Len(db["countdown"]) : db["countdown"][i].room_code = code}

\* C3: the countdown collection holds at most one document per room_code, and
\* exactly one for every room_code on which a setCountdown upsert was applied
\* (so for every room on which a setCountdown has completed), under any
\* interleaving of setCountdown calls.
C3_OneCountdownPerRoom ==
    /\ \A code \in Codes :
          /\ Cardinality(CountdownsOf(code)) <= 1
          /\ lastSet[code] # None => Cardinality(CountdownsOf(code)) = 1
    /\ resp.req.op = "setCountdown" =>
          Cardinality(CountdownsOf(resp.req.code)) = 1
    /\ \A p \in Procs : pc[p] = "sc_read" =>
          Cardinality(CountdownsOf(req[p].code)) = 1
\* two setCountdown calls for one room overlap, the other room has its
\* countdown too
C3_Witness ==
    /\ pc[1] = "sc_read" /\ pc[2] = "sc_read"
    /\ req[1].code = req[2].code
    /\ req[1].target_iso # req[2].target_iso
    /\ \A code \in Codes : Cardinality(CountdownsOf(code)) = 1

\* C4: getCountdown never answers NotFound.  With no setCountdown applied for
\* the room it returns {room_code: code, target_iso: null}; otherwise the
\* countdown of that room whose target_iso is the one most recently applied for
\* that room, whatever was set for other rooms.
C4_GetCountdown ==
    resp.req.op = "getCountdown" =>
        /\ resp.status = 200
        /\ resp.body # None
        /\ resp.body[1].room_code = resp.req.code
        /\ resp.body[1].target_iso = lastSet[resp.req.code]
        /\ lastSet[resp.req.code] = None =>
              resp.body = Some([room_code |-> resp.req.code, target_iso |-> None])
\* a countdown read back for the room whose countdown was stored second and
\* set more than once, the other room's target being another one
C4_Witness ==
    /\ resp.req.op = "getCountdown"
    /\ resp.body[1].target_iso = Some("2030")
    /\ \E c \in Codes \ {resp.req.code} : lastSet[c] = Some("2031")
    /\ Len(db["countdown"]) = 2
    /\ db["countdown"][2].room_code = resp.req.code
    /\ db["countdown"][2].updated_at > db["countdown"][1].updated_at

\* ------------------------------------------------------------------ feeds
IsList == resp.req.op \in {"listMotd", "listPings"}
ListedFrom == IF resp.req.op = "listMotd" THEN "motd" ELSE "ping"
Max0(n) == IF n < 0 THEN 0 ELSE n

\* C7: listMotd and listPings return the room's entries in strictly reverse
\* insertion order: of two returned entries created by calls made one after
\* the other, the later-created one (the larger ObjectId) comes first, also
\* when both were stamped with the same `at`.
C7_ReverseInsertionOrder ==
    IsList =>
        \A i, j \in 1..Len(resp.body) :
            i < j => ObjectId(resp.body[i].id) > ObjectId(resp.body[j].id)

\* C8: for every integer limit, listMotd and listPings return at most `limit`
\* elements (none for a limit of 0 or less), only documents of the room, and
\* the empty sequence when the room has no entries.
C8_AtMostLimit ==
    IsList =>
        /\ resp.status = 200
        /\ Len(resp.body) <= Max0(resp.req.limit)
        /\ \A i \in 1..Len(resp.body) : resp.body[i].room_code = resp.req.code
        /\ FindByRoom(ListedFrom, resp.req.code) = {} => resp.body = <<>>

\* ------------------------------------------------------------------ todos
IsTodoWrite(r) == r.req.op \in {"updateTodo", "deleteTodo"}
TodosWithId(oid) == {i \in 1..Len(db["todo"]) : db["todo"][i]["_id"] = oid}

\* C5: room isolation.  An updateTodo or deleteTodo scoped to a room other than
\* the one the todo was created under, with the todo's id, fails with NotFound
\* and leaves the store unchanged; listTodos returns only the room's own todos.
C5_ListOwn ==
    resp.req.op = "listTodos" =>
        \A i \in 1..Len(resp.body) :
            /\ resp.body[i].room_code = resp.req.code
            /\ \A k \in TodosWithId(ObjectId(resp.body[i].id)) :
                  db["todo"][k].room_code = resp.req.code
C5_CrossRoom ==
    /\ (/\ IsTodoWrite(resp')
        /\ \E i \in TodosWithId(ObjectId(resp'.req.id)) :
              db["todo"][i].room_code # resp'.req.code)
       => (resp'.status = 404 /\ db' = db)
    /\ \A p \in Procs : (pc[p] = "idle" /\ pc'[p] = "ut_read") =>
          \A i \in TodosWithId(ObjectId(req'[p].id)) :
              db["todo"][i].room_code = req'[p].code
\* C5: listTodos returns only the room's todos, and a cross-room updateTodo
\* or deleteTodo is answered NotFound and changes nothing.
C5_RoomIsolation == []C5_ListOwn /\ [][C5_CrossRoom]_vars
\* an updateTodo that asked to set done on a todo of the other room was
\* answered NotFound, the todo still there and not done
C5_Witness ==
    /\ resp.req.op = "updateTodo"
    /\ resp.status = 404
    /\ resp.req.done = Some(TRUE)
    /\ \E i \in TodosWithId(ObjectId(resp.req.id)) :
          /\ db["todo"][i].room_code # resp.req.code
          /\ ~db["todo"][i].done

\* C6: deletion is final.  Once deleteTodo has acknowledged an id, the todo
\* collection never holds it again and listTodos never returns it, every
\* updateTodo and deleteTodo called afterwards with that id fails with
\* NotFound, and no addTodo returns a record with that id.
C6_Gone ==
    /\ \A d \in Range(db["todo"]) : d["_id"] \notin deleted
    /\ resp.req.op = "listTodos" =>
          \A i \in 1..Len(resp.body) : ObjectId(resp.body[i].id) \notin deleted
    /\ (resp.req.op = "addTodo" /\ resp.body # None) =>
          ObjectId(resp.body[1].id) \notin deleted
C6_LaterCalls ==
    /\ (IsTodoWrite(resp') /\ pc' = pc /\ ObjectId(resp'.req.id) \in deleted)
          => resp'.status = 404
    /\ \A p \in Procs : (pc[p] = "idle" /\ pc'[p] = "ut_read") =>
          ObjectId(req'[p].id) \notin deleted
    /\ deleted \subseteq deleted'
\* C6: an acknowledged id is gone for good, and every later updateTodo or
\* deleteTodo with it is answered NotFound.
C6_DeletionFinal == []C6_Gone /\ [][C6_LaterCalls]_vars
\* after an acknowledged deletion, an updateTodo with the deleted id was
\* answered NotFound while a todo added later is in the room
C6_Witness ==
    /\ resp.req.op = "updateTodo"
    /\ resp.status = 404
    /\ ObjectId(resp.req.id) \in deleted
    /\ \E d \in Range(db["todo"]) :
          d.room_code = resp.req.code /\ d["_id"] > ObjectId(resp.req.id)

\* C9: updateTodo changes nothing but `done` and `updated_at` of the one
\* matched Todo.  With done provided the matched document gets the requested
\* done and an updated_at, its id, room_code, text and created_at and every
\* other document stay as they were; with done absent the store is unchanged.
\* The call returns the matched document, or NotFound when none matches.
C9_Write(p) ==
    LET r == req'[p]
        m == {i \in TodosWithId(ObjectId(r.id)) : db["todo"][i].room_code = r.code}
    IN /\ Cardinality(m) = 1
       /\ \A c \in Collections \ {"todo"} : db'[c] = db[c]
       /\ Len(db'["todo"]) = Len(db["todo"])
       /\ \A j \in (1..Len(db["todo"])) \ m : db'["todo"][j] = db["todo"][j]
       /\ r.done = None => db' = db
       /\ r.done # None =>
             \A i \in m :
                 LET old == db["todo"][i]
                     new == db'["todo"][i]
                 IN /\ new.done = r.done[1]
                    /\ DOMAIN new = (DOMAIN old) \cup {"updated_at"}
                    /\ new.updated_at = now
                    /\ \A k \in (DOMAIN old) \ {"done", "updated_at"} :
                          new[k] = old[k]
C9_Answer ==
    LET r == resp'.req
        m == {i \in TodosWithId(ObjectId(r.id)) : db["todo"][i].room_code = r.code}
    IN /\ db' = db
       /\ resp'.status = 404 => m = {}
       /\ resp'.status # 404 =>
             /\ resp'.status = 200
             /\ Cardinality(m) = 1
             /\ \A i \in m :
                   /\ resp'.body = Some(SerializeFields(db["todo"][i]))
                   /\ resp'.body[1].id = r.id
                   /\ resp'.body[1].room_code = r.code
                   /\ r.done # None =>
                         /\ resp'.body[1].done = r.done[1]
                         /\ "updated_at" \in DOMAIN resp'.body[1]
C9_Step ==
    /\ \A p \in Procs : (pc[p] = "idle" /\ pc'[p] = "ut_read") => C9_Write(p)
    /\ resp'.req.op = "updateTodo" => C9_Answer
\* C9: every updateTodo step changes at most done and updated_at of the
\* matched todo, and every updateTodo answer is the matched todo or NotFound.
C9_UpdateTodoFrame == [][C9_Step]_vars
\* an updateTodo without done returned, unchanged, a todo that an earlier
\* updateTodo had set done, a second todo being in the store
C9_Witness ==
    /\ resp.req.op = "updateTodo"
    /\ resp.status = 200
    /\ resp.req.done = None
    /\ resp.body # None
    /\ resp.body[1].done
    /\ resp.body[1].created_at # resp.body[1].updated_at
    /\ Len(db["todo"]) = 2

\* C10: every updateTodo call either fails with NotFound or returns a Todo
\* record with the requested id and room_code whose done is the requested
\* value, never an absent record, also when a deleteTodo or another updateTodo
\* on the same todo runs between its update_one and its find_one.
C10_UpdateReturnsUpdated ==
    resp.req.op = "updateTodo" =>
        \/ resp.status = 404
        \/ /\ resp.status = 200
           /\ resp.body # None
           /\ resp.body[1].id = resp.req.id
           /\ resp.body[1].room_code = resp.req.code
           /\ resp.req.done # None => resp.body[1].done = resp.req.done[1]

====
